---- MODULE Spec2Model ----
(***************************************************************************)
(* Reminder notification scheduler of the medical tracking dashboard.      *)
(* State: the reminder cache `reminders`, the tracker `hasPlayedSound`,    *)
(* the lazily created `audioContext`, the browser's notification           *)
(* permission, the requests in flight (GET /reminders, POST /reminders,     *)
(* DELETE, POST /import-data, PUT notify, permission prompts), the         *)
(* backend's reminder table and the wall clock.                            *)
(* Times are milliseconds, as in the source.                               *)
(***************************************************************************)
EXTENDS Integers, FiniteSets, Sequences, Bags, TLC

\* ------------------------------------------------------------------ bounds

\* Reminder ids the backend hands out in the main specification.
NumIds == 1
\* Operations the user starts in one session (add, delete, import, going
\* online, reload), one more in the specifications of longer sessions; every
\* request in flight comes from one of them or from start-up, so this bounds
\* the requests in flight as well.
MaxOps == 1

\* The id universe: one id more than NumIds, for the specification of pairs.
AllIds == 1..(NumIds + 1)
Ids == 1..NumIds

\* The due time of the reminders, and the instants at which the clock is
\* read: the start of the session (one millisecond before the 5-minute
\* window opens), the first millisecond of that window, its last one, the
\* due time itself, three instants after it (30 s, 40 s and 60 s later:
\* inside the one-minute window, and its far edge), and one past both.
DueTimes == {300001}
Instants == {0, 1, 300000, 300001, 330001, 340001, 360001, 361001}

\* ------------------------------------------------------- program constants

\* checkReminders: "timeDiff <= 300000" (5 minutes before)
FIVE_MIN_MS == 300000
\* checkReminders: "timeDiff > -60000" (one minute after the due time)
ONE_MIN_MS == 60000

\* ------------------------------------------------------------- data shapes

\* A reminder record {id, date_time, notified} (title and notes do not
\* take part in scheduling).
Reminder(id, dt, n) == [id |-> id, date_time |-> dt, notified |-> n]
ReminderRecs == {Reminder(i, d, n) : i \in AllIds, d \in DueTimes, n \in BOOLEAN}

\* The two tracker suffixes of checkReminders: `${id}-5min` and `${id}-now`.
Suffixes == {"5min", "now"}
Alerts == AllIds \X Suffixes

RECURSIVE ListOf(_)
\* The array GET /reminders returns for the table S: one record per id,
\* in ascending id order.
ListOf(S) ==
    IF S = {} THEN <<>>
    ELSE LET m == CHOOSE r \in S : \A q \in S : r.id <= q.id
         IN <<m>> \o ListOf(S \ {m})

Range(s) == {s[i] : i \in 1..Len(s)}
IdsOf(s) == {s[i].id : i \in 1..Len(s)}

\* ------------------------------------------------- pure parts of the code

\* mutant: the template string drops the id and keeps only the due time
KeyWithoutId(reminder, suffix) == <<reminder.date_time, suffix>>
\* `${reminder.id}-5min` / `${reminder.id}-now`
Key(reminder, suffix) == <<reminder.id, suffix>>

\* `${id}-5min` / `${id}-now` in deleteReminder
KeyOfId(id, suffix) == <<id, suffix>>

hasPlayedSoundDeleteNowOnly(played, id) == played \ {KeyOfId(id, "now")}
\* deleteReminder: hasPlayedSound.delete(`${id}-5min`);
\*                 hasPlayedSound.delete(`${id}-now`)
hasPlayedSoundDelete(played, id) ==
    played \ {KeyOfId(id, "5min"), KeyOfId(id, "now")}

\* mutant: operands of the subtraction swapped
timeDiffSwapped(reminder, now_) == now_ - reminder.date_time
\* const timeDiff = reminderTime - now
timeDiff(reminder, now_) == reminder.date_time - now_

\* mutant: the window (dueAt - 5min, dueAt] with the edges the other way
in5minWindowUpToDue(td) == td >= 0 /\ td <= FIVE_MIN_MS
in5minWindowOpenClosed(td) == td >= 0 /\ td < FIVE_MIN_MS
\* timeDiff > 0 && timeDiff <= 300000
in5minWindow(td) == td > 0 /\ td <= FIVE_MIN_MS

\* mutant: the window (dueAt, dueAt + 1min] with the edges the other way
inNowWindowCatchUp(td) == td <= 0
inNowWindowOpenClosed(td) == td >= 0 - ONE_MIN_MS /\ td < 0
\* timeDiff > -60000 && timeDiff <= 0
inNowWindow(td) == td > 0 - ONE_MIN_MS /\ td <= 0

\* mutant: the tracker is not updated
hasPlayedSoundAddSkipped(played, key) == played
\* hasPlayedSound.add(key)
hasPlayedSoundAdd(played, key) == played \cup {key}

\* fetch(`${API_URL}/reminders/${reminder.id}/notify`, {method: 'PUT'}): one
\* more acknowledgement request for the id, not awaited
notifyRequestSkipped(sent, id) == sent
\* the bag of ids a tick has sent an acknowledgement for, one copy per request
notifyRequest(sent, id) == sent (+) SetToBag({id})

\* initAudioContext: audioContext = new AudioContext() inside try/catch;
\* when the constructor throws the variable keeps its value.
initAudioContext(ctx, canCreate) == IF canCreate THEN TRUE ELSE ctx

\* What the audio stack does during one call: whether an AudioContext can
\* be constructed, whether the oscillator code throws, whether the
\* fallback new Audio(...).play() throws synchronously.
SoundEnvs == [canCreate : BOOLEAN, synthThrows : BOOLEAN, fallbackThrows : BOOLEAN]

\* mutant: the fallback is not wrapped in its own try/catch
playNotificationSoundUnguarded(ctx, env) ==
    LET ctx1 == IF ~ctx THEN initAudioContext(ctx, env.canCreate) ELSE ctx
        synthFails == ~ctx1 \/ env.synthThrows
    IN [audioContext |-> ctx1,
        tone |-> IF synthFails THEN 0 ELSE 1,
        fallback |-> IF synthFails THEN 1 ELSE 0,
        fallbackThrew |-> IF synthFails /\ env.fallbackThrows THEN 1 ELSE 0,
        threw |-> synthFails /\ env.fallbackThrows]
\* playNotificationSound(type): the context as left behind, the number of
\* tones synthesised, the number of fallback playbacks attempted, how many
\* of these threw, and whether the call throws to its caller.
playNotificationSound(ctx, env) ==
    LET ctx1 == IF ~ctx THEN initAudioContext(ctx, env.canCreate) ELSE ctx
        synthFails == ~ctx1 \/ env.synthThrows
    IN [audioContext |-> ctx1,
        tone |-> IF synthFails THEN 0 ELSE 1,
        fallback |-> IF synthFails THEN 1 ELSE 0,
        fallbackThrew |-> IF synthFails /\ env.fallbackThrows THEN 1 ELSE 0,
        threw |-> FALSE]

Permissions == {"unsupported", "default", "granted", "denied"}

\* mutant: the notification is created without waiting for the answer
sendNotificationBeforeAnswer(permission_) ==
    IF permission_ = "unsupported" THEN "skip"
    ELSE IF permission_ # "denied" THEN "create"
    ELSE "skip"
\* mutant: the test for "denied" is missing
sendNotificationNoDeniedTest(permission_) ==
    IF permission_ = "unsupported" THEN "skip"
    ELSE IF permission_ = "granted" THEN "create"
    ELSE "request"
\* sendNotification(title, body): what it does with the notification API
sendNotification(permission_) ==
    IF permission_ = "unsupported" THEN "skip"
    ELSE IF permission_ = "granted" THEN "create"
    ELSE IF permission_ # "denied" THEN "request"
    ELSE "skip"

\* mutant: the answer is merged into the old cache
loadRemindersResultMerged(old, ok, body) ==
    IF ok
    THEN body \o SelectSeq(old, LAMBDA r : \A i \in 1..Len(body) : body[i].id # r.id)
    ELSE old
\* mutant: the catch block empties the cache
loadRemindersResultCleared(old, ok, body) == IF ok THEN body ELSE <<>>
\* loadReminders: reminders = await response.json() on success; the catch
\* block leaves the variable alone.
loadRemindersResult(old, ok, body) == IF ok THEN body ELSE old

\* ------------------------------------------------------------------- state

VARIABLES
    now,            \* the last value read from the wall clock (new Date())
    backend,        \* the backend's reminder table: a set of records, one per id
    reminders,      \* the cache: the array last returned by GET /reminders
    hasPlayedSound, \* the tracker: set of keys
    audioContext,   \* TRUE once an AudioContext has been created
    permission,     \* Notification.permission ("unsupported": no Notification API)
    prompt,         \* a permission prompt is open (requestPermission unresolved)
    pendingNotifs,  \* bag of alerts: the sendNotification calls that wait on the
                    \* permission answer, one .then callback each
    promptTimers,   \* pending 3-second timeouts of requestNotificationPermission
    initPc,         \* position of each initializeApp invocation
    timers,         \* number of setInterval(checkReminders, 60000) installed
    loads,          \* bag of GET /reminders in flight
    acks,           \* bag of ids: the PUT /reminders/{id}/notify in flight
    calls,          \* bag of POST /reminders, DELETE /reminders/{id} and
                    \* POST /import-data in flight
    ops,            \* number of operations the user still starts in the session
    dispatches,     \* history: per alert, dispatches since the session began
                    \* (the page was loaded) or the reminder was last deleted
                    \* by deleteReminder
    deleted,        \* history: ids deleted by deleteReminder and not created again
    requests,       \* history: calls of Notification.requestPermission()
    earlier,        \* history: per alert, the number of earlier sessions of the
                    \* page (before a reload) that dispatched it
    ev              \* history: what the last step did

vars == <<now, backend, reminders, hasPlayedSound, audioContext, permission,
          prompt, pendingNotifs, promptTimers, initPc, timers, loads,
          acks, calls, ops, dispatches, deleted, requests, earlier, ev>>

\* initializeApp is registered by the DOMContentLoaded listener at the top of
\* the script and again by the readyState test at its end.
Inits == {1, 2}

Event(op) ==
    [op |-> op, alerts |-> {}, tones |-> 0, fallbacks |-> 0, fallbackThrew |-> 0,
     threw |-> FALSE, req |-> 0, notif |-> 0, acks |-> EmptyBag, id |-> 0]

\* A GET /reminders in flight: sent, or answered with a body that has not
\* reached the page yet; owner is the initializeApp invocation awaiting it
\* (0: nobody's continuation touches the scheduler).
Load(st, body, owner) == [st |-> st, body |-> body, owner |-> owner]

\* A request of addReminder, deleteReminder or importData in flight:
\* "reading" while importData awaits the text of the file, then "sent",
\* or answered ("ok", "fail") with the response not yet back at the page, or
\* "orphan" when the page that sent it has been reloaded. id is the id in the
\* URL of a DELETE, date_time the date of a POST /reminders, table the
\* reminders of an import file.
Call(kind, id, dt, table, st) ==
    [kind |-> kind, id |-> id, date_time |-> dt, table |-> table, st |-> st]

UniqueIds(S) == \A r, q \in S : r.id = q.id => r = q
Tables == {S \in SUBSET ReminderRecs : UniqueIds(S)}

\* ------------------------------------------------------------ checkReminders

\* The body of one branch of checkReminders for reminders[i]: sound,
\* notification, PUT notify, tracker, and (first branch only) notified = true.
\* A throw of playNotificationSound leaves the rest of the branch undone.
dispatch(acc, i, suffix, setNotified, permission_, env) ==
    LET r == acc.reminders[i]
        snd == playNotificationSound(acc.audioContext, env)
        a1 == [acc EXCEPT !.alerts = @ \cup {<<r.id, suffix>>},
                          !.audioContext = snd.audioContext,
                          !.tones = @ + snd.tone,
                          !.fallbacks = @ + snd.fallback,
                          !.fallbackThrew = @ + snd.fallbackThrew]
        what == sendNotification(permission_)
    IN IF snd.threw THEN [a1 EXCEPT !.threw = TRUE]
       ELSE [a1 EXCEPT
               !.notif = @ + (IF what = "create" THEN 1 ELSE 0),
               !.req = @ + (IF what = "request" THEN 1 ELSE 0),
               !.pending = IF what = "request" THEN @ (+) SetToBag({<<r.id, suffix>>})
                          ELSE @,
               !.acks = notifyRequest(@, r.id),
               !.hasPlayedSound = hasPlayedSoundAdd(@, Key(r, suffix)),
               !.reminders[i].notified = IF setNotified THEN TRUE ELSE @]

\* mutant: the first branch does not look at reminder.notified
checkReminderIgnoringNotified(acc, i, t, permission_, env) ==
    LET r == acc.reminders[i]
        td == timeDiff(r, t)
    IN IF in5minWindow(td) /\ Key(r, "5min") \notin acc.hasPlayedSound
       THEN dispatch(acc, i, "5min", TRUE, permission_, env)
       ELSE IF inNowWindow(td) /\ Key(r, "now") \notin acc.hasPlayedSound
       THEN dispatch(acc, i, "now", FALSE, permission_, env)
       ELSE acc

\* The callback of reminders.forEach for reminders[i] at clock t.
checkReminder(acc, i, t, permission_, env) ==
    LET r == acc.reminders[i]
        td == timeDiff(r, t)
    IN IF in5minWindow(td) /\ ~r.notified
          /\ Key(r, "5min") \notin acc.hasPlayedSound
       THEN dispatch(acc, i, "5min", TRUE, permission_, env)
       ELSE IF inNowWindow(td) /\ Key(r, "now") \notin acc.hasPlayedSound
       THEN dispatch(acc, i, "now", FALSE, permission_, env)
       ELSE acc

RECURSIVE forEach(_, _, _, _, _)
forEachEndedBySoundFailure(acc, i, t, permission_, env) ==
    IF i > Len(acc.reminders) \/ acc.threw \/ acc.fallbacks > 0 THEN acc
    ELSE forEach(checkReminder(acc, i, t, permission_, env), i + 1, t, permission_, env)
\* reminders.forEach(...): in array order; an exception ends the loop.
forEach(acc, i, t, permission_, env) ==
    IF i > Len(acc.reminders) \/ acc.threw THEN acc
    ELSE forEach(checkReminder(acc, i, t, permission_, env), i + 1, t, permission_, env)

\* checkReminders() run at clock t.
checkReminders(rems, played, ctx, permission_, t, env) ==
    forEach([reminders |-> rems, hasPlayedSound |-> played, audioContext |-> ctx,
             alerts |-> {}, tones |-> 0, fallbacks |-> 0, fallbackThrew |-> 0,
             threw |-> FALSE, req |-> 0, notif |-> 0, pending |-> EmptyBag,
             acks |-> EmptyBag],
            1, t, permission_, env)

TickEvent(op, res) ==
    [op |-> op, alerts |-> res.alerts, tones |-> res.tones,
     fallbacks |-> res.fallbacks, fallbackThrew |-> res.fallbackThrew,
     threw |-> res.threw, req |-> res.req, notif |-> res.notif, acks |-> res.acks,
     id |-> 0]

\* The effect of one checkReminders() call on the state.
ApplyCheck(op, res, t) ==
    /\ now' = t
    /\ reminders' = res.reminders
    /\ hasPlayedSound' = res.hasPlayedSound
    /\ prompt' = (prompt \/ res.req > 0)
    /\ pendingNotifs' = pendingNotifs (+) res.pending
    /\ acks' = acks (+) res.acks
    /\ dispatches' = [a \in Alerts |->
                         IF a \in res.alerts THEN dispatches[a] + 1 ELSE dispatches[a]]
    /\ requests' = requests + res.req
    /\ ev' = TickEvent(op, res)

\* -------------------------------------------------------------------- Init

\* The page has just run the script: no data loaded, empty tracker, and one
\* or two initializeApp invocations waiting on the health check. The backend
\* holds whatever earlier sessions left there.
Init ==
    /\ now = 0
    /\ backend \in Tables
    /\ reminders = <<>>
    /\ hasPlayedSound = {}
    /\ audioContext = FALSE
    /\ permission \in Permissions
    /\ prompt = FALSE
    /\ pendingNotifs = EmptyBag
    /\ promptTimers = 0
    /\ initPc \in {[p \in Inits |-> IF p = 1 \/ both THEN "health" ELSE "off"] :
                     both \in BOOLEAN}
    /\ timers = 0
    /\ loads = EmptyBag
    /\ acks = EmptyBag
    /\ calls = EmptyBag
    /\ ops \in {MaxOps, MaxOps + 1}
    /\ dispatches = [a \in Alerts |-> 0]
    /\ deleted = {}
    /\ requests = 0
    /\ earlier = [a \in Alerts |-> 0]
    /\ ev = Event("start")

StartLoad(owner) == loads' = loads (+) SetToBag({Load("sent", <<>>, owner)})
Without(id) == {r \in backend : r.id # id}

\* ----------------------------------------------------------- initializeApp

\* await checkServerHealth() settles (either way); loadData() starts
\* loadReminders(), whose fetch goes out.
HealthSettled(p) ==
    /\ initPc[p] = "health"
    /\ StartLoad(p)
    /\ initPc' = [initPc EXCEPT ![p] = "load"]
    /\ ev' = Event("health")
    /\ UNCHANGED <<calls, earlier, ops, now, backend, reminders, hasPlayedSound, audioContext,
                   permission, prompt, pendingNotifs, promptTimers, timers,
                   acks, dispatches, deleted, requests>>

\* After await loadData(): checkReminders(); requestNotificationPermission();
\* initAudioContext(); setInterval(checkReminders, 60000). An exception of
\* checkReminders is caught by initializeApp and skips the rest.
InitReady(p, t, env) ==
    /\ initPc[p] = "loaded"
    /\ t >= now
    /\ LET res == checkReminders(reminders, hasPlayedSound, audioContext,
                                 permission, t, env)
       IN /\ ApplyCheck("init_tick", res, t)
          /\ IF res.threw
             THEN /\ audioContext' = res.audioContext
                  /\ UNCHANGED <<promptTimers, timers>>
             ELSE /\ promptTimers' =
                        IF permission = "default" THEN promptTimers + 1 ELSE promptTimers
                  /\ audioContext' = initAudioContext(res.audioContext, env.canCreate)
                  /\ timers' = timers + 1
    /\ initPc' = [initPc EXCEPT ![p] = "done"]
    /\ UNCHANGED <<calls, earlier, ops, backend, permission, loads, deleted>>

\* ---------------------------------------------------------- the 60 s timer

TickEnabledWhenIdle == timers > 0 /\ acks = EmptyBag /\ loads = EmptyBag
\* The callback of setInterval can run: a timer is installed. The fetches
\* of checkReminders and loadReminders are not awaited by it.
TickEnabled == timers > 0

\* One run of the setInterval callback, reading the clock as t.
Tick(t, env) ==
    /\ TickEnabled
    /\ t >= now
    /\ LET res == checkReminders(reminders, hasPlayedSound, audioContext,
                                 permission, t, env)
       IN /\ ApplyCheck("tick", res, t)
          /\ audioContext' = res.audioContext
    /\ UNCHANGED <<calls, earlier, ops, backend, permission, promptTimers, initPc, timers, loads,
                   deleted>>

\* ------------------------------------------------------ permission prompts

\* The 3-second timeout of requestNotificationPermission fires and calls
\* Notification.requestPermission(), whatever the permission is by then.
PromptTimerFires ==
    /\ promptTimers > 0
    /\ promptTimers' = promptTimers - 1
    /\ prompt' = (prompt \/ permission = "default")
    /\ requests' = requests + 1
    /\ ev' = [Event("prompt_timer") EXCEPT !.req = 1]
    /\ UNCHANGED <<calls, earlier, ops, now, backend, reminders, hasPlayedSound, audioContext,
                   permission, pendingNotifs, initPc, timers, loads, acks, dispatches, deleted>>

\* The user answers (or dismisses) the prompt; every waiting
\* requestPermission() promise resolves with the answer, and the callbacks of
\* sendNotification create their notifications when it is "granted".
PermissionAnswer(ans) ==
    /\ prompt
    /\ permission' = ans
    /\ prompt' = FALSE
    /\ pendingNotifs' = EmptyBag
    /\ ev' = [Event("answer") EXCEPT
                !.notif = IF ans = "granted" THEN BagCardinality(pendingNotifs) ELSE 0]
    /\ UNCHANGED <<calls, earlier, ops, now, backend, reminders, hasPlayedSound, audioContext,
                   promptTimers, initPc, timers, loads, acks, dispatches,
                   deleted, requests>>

\* --------------------------------------------------------- GET /reminders

\* The backend answers a GET /reminders with its table as it is now.
BackendAnswer(l) ==
    /\ l.st = "sent"
    /\ loads' = (loads (-) SetToBag({l}))
                  (+) SetToBag({Load("resp", ListOf(backend), l.owner)})
    /\ ev' = Event("answer_get")
    /\ UNCHANGED <<calls, earlier, ops, now, backend, reminders, hasPlayedSound, audioContext,
                   permission, prompt, pendingNotifs, promptTimers, initPc,
                   timers, acks, dispatches, deleted, requests>>

Settled(l) ==
    /\ loads' = loads (-) SetToBag({l})
    /\ initPc' = IF l.owner = 0 THEN initPc
                 ELSE [initPc EXCEPT ![l.owner] = "loaded"]

\* loadReminders resumes with an OK response whose body parses.
LoadOk(l) ==
    /\ l.st = "resp"
    /\ reminders' = loadRemindersResult(reminders, TRUE, l.body)
    /\ Settled(l)
    /\ ev' = Event("load_ok")
    /\ UNCHANGED <<calls, earlier, ops, now, backend, hasPlayedSound, audioContext, permission,
                   prompt, pendingNotifs, promptTimers, timers, acks,
                   dispatches, deleted, requests>>

\* loadReminders ends in its catch block: network error, non-OK status or
\* a body that does not parse.
LoadFail(l) ==
    /\ reminders' = loadRemindersResult(reminders, FALSE, l.body)
    /\ Settled(l)
    /\ ev' = Event("load_fail")
    /\ UNCHANGED <<calls, earlier, ops, now, backend, hasPlayedSound, audioContext, permission,
                   prompt, pendingNotifs, promptTimers, timers, acks,
                   dispatches, deleted, requests>>

\* window 'online' event: loadData() without await.
OnlineEvent ==
    /\ ops > 0
    /\ ops' = ops - 1
    /\ StartLoad(0)
    /\ ev' = Event("online")
    /\ UNCHANGED <<calls, earlier, now, backend, reminders, hasPlayedSound, audioContext,
                   permission, prompt, pendingNotifs, promptTimers, initPc,
                   timers, acks, dispatches, deleted, requests>>

\* ------------------------------------------ requests of the user's handlers

\* The backend has dealt with the request c: the response is on its way to
\* the page, unless the page that sent the request is gone.
Answered(c, st) ==
    IF c.st = "orphan" THEN calls (-) SetToBag({c})
    ELSE (calls (-) SetToBag({c})) (+) SetToBag({[c EXCEPT !.st = st]})
Pending(c, kind) == c.kind = kind /\ c.st \in {"sent", "orphan"}

\* ------------------------------------------------------------ addReminder

\* addReminder up to its await: title and date are filled in, the date is
\* later than the clock, and POST /reminders goes out.
AddSend(dt) ==
    /\ ops > 0
    /\ ops' = ops - 1
    /\ dt > now
    /\ calls' = calls (+) SetToBag({Call("add", 0, dt, {}, "sent")})
    /\ ev' = Event("add_click")
    /\ UNCHANGED <<now, backend, reminders, hasPlayedSound, audioContext,
                   permission, prompt, pendingNotifs, promptTimers, initPc,
                   timers, loads, acks, dispatches, deleted, requests,
                   earlier>>

\* The backend stores the reminder of a POST /reminders under an id it has
\* free and answers OK.
BackendAdd(c, id) ==
    /\ Pending(c, "add")
    /\ id \notin {r.id : r \in backend}
    /\ backend' = backend \cup {Reminder(id, c.date_time, FALSE)}
    /\ calls' = Answered(c, "ok")
    /\ deleted' = deleted \ {id}
    /\ ev' = Event("backend_add")
    /\ UNCHANGED <<now, reminders, hasPlayedSound, audioContext, permission,
                   prompt, pendingNotifs, promptTimers, initPc, timers,
                   loads, acks, ops, dispatches, requests, earlier>>

\* The POST /reminders fails: a network error or a non-OK status reaches the
\* page. The backend may or may not have stored the reminder (under the id
\* `id`, which it then has free).
BackendAddFails(c, stored, id) ==
    /\ Pending(c, "add")
    /\ stored => id \notin {r.id : r \in backend}
    /\ backend' = IF stored THEN backend \cup {Reminder(id, c.date_time, FALSE)}
                  ELSE backend
    /\ calls' = Answered(c, "fail")
    /\ deleted' = IF stored THEN deleted \ {id} ELSE deleted
    /\ ev' = Event("backend_add_fail")
    /\ UNCHANGED <<now, reminders, hasPlayedSound, audioContext, permission,
                   prompt, pendingNotifs, promptTimers, initPc, timers,
                   loads, acks, ops, dispatches, requests, earlier>>

\* addReminder resumes with the failure: the catch block only reports it.
AddFail(c) ==
    /\ c.kind = "add" /\ c.st = "fail"
    /\ calls' = calls (-) SetToBag({c})
    /\ ev' = Event("add_fail")
    /\ UNCHANGED <<now, backend, reminders, hasPlayedSound, audioContext,
                   permission, prompt, pendingNotifs, promptTimers, initPc,
                   timers, loads, acks, ops, dispatches, deleted, requests,
                   earlier>>

\* addReminder resumes with the OK response: it clears the form and starts
\* loadReminders().
AddOk(c) ==
    /\ c.kind = "add" /\ c.st = "ok"
    /\ calls' = calls (-) SetToBag({c})
    /\ StartLoad(0)
    /\ ev' = Event("add")
    /\ UNCHANGED <<now, backend, reminders, hasPlayedSound, audioContext,
                   permission, prompt, pendingNotifs, promptTimers, initPc,
                   timers, acks, ops, dispatches, deleted, requests, earlier>>

\* --------------------------------------------------------- deleteReminder

\* deleteReminder(id) from the button of a rendered reminder, up to its
\* await: confirm() is accepted and DELETE /reminders/{id} goes out.
DeleteSend(id) ==
    /\ ops > 0
    /\ ops' = ops - 1
    /\ id \in IdsOf(reminders)
    /\ calls' = calls (+) SetToBag({Call("delete", id, 0, {}, "sent")})
    /\ ev' = [Event("delete_click") EXCEPT !.id = id]
    /\ UNCHANGED <<now, backend, reminders, hasPlayedSound, audioContext,
                   permission, prompt, pendingNotifs, promptTimers, initPc,
                   timers, loads, acks, dispatches, deleted, requests,
                   earlier>>

\* deleteReminder(id) with the confirm() dialog answered "Cancel": it returns
\* before anything is sent.
DeleteCancelled(id) ==
    /\ ops > 0
    /\ ops' = ops - 1
    /\ id \in IdsOf(reminders)
    /\ ev' = [Event("delete_cancel") EXCEPT !.id = id]
    /\ UNCHANGED <<now, backend, reminders, hasPlayedSound, audioContext,
                   permission, prompt, pendingNotifs, promptTimers, initPc,
                   timers, loads, acks, calls, dispatches, deleted, requests,
                   earlier>>

\* The backend removes the reminder of a DELETE and answers OK.
BackendDelete(c) ==
    /\ Pending(c, "delete")
    /\ backend' = Without(c.id)
    /\ calls' = Answered(c, "ok")
    /\ ev' = [Event("backend_delete") EXCEPT !.id = c.id]
    /\ UNCHANGED <<now, reminders, hasPlayedSound, audioContext, permission,
                   prompt, pendingNotifs, promptTimers, initPc, timers,
                   loads, acks, ops, dispatches, deleted, requests, earlier>>

\* The DELETE fails: a network error or a non-OK status reaches the page.
\* The backend may or may not have removed the reminder.
BackendDeleteFails(c, removed) ==
    /\ Pending(c, "delete")
    /\ backend' = IF removed THEN Without(c.id) ELSE backend
    /\ calls' = Answered(c, "fail")
    /\ ev' = [Event("backend_delete_fail") EXCEPT !.id = c.id]
    /\ UNCHANGED <<now, reminders, hasPlayedSound, audioContext, permission,
                   prompt, pendingNotifs, promptTimers, initPc, timers,
                   loads, acks, ops, dispatches, deleted, requests, earlier>>

\* deleteReminder resumes with the OK response: it drops the two keys of the
\* id and starts loadReminders().
DeleteOk(c) ==
    /\ c.kind = "delete" /\ c.st = "ok"
    /\ calls' = calls (-) SetToBag({c})
    /\ hasPlayedSound' = hasPlayedSoundDelete(hasPlayedSound, c.id)
    /\ StartLoad(0)
    /\ dispatches' = [a \in Alerts |-> IF a[1] = c.id THEN 0 ELSE dispatches[a]]
    /\ deleted' = IF c.id \in {r.id : r \in backend} THEN deleted
                  ELSE deleted \cup {c.id}
    /\ ev' = [Event("delete_ok") EXCEPT !.id = c.id]
    /\ UNCHANGED <<now, backend, reminders, audioContext, permission, prompt,
                   pendingNotifs, promptTimers, initPc, timers, acks, ops,
                   requests, earlier>>

\* mutant: the keys are dropped before the response is looked at
DeleteFailKeysDropped(c) ==
    /\ c.kind = "delete" /\ c.st = "fail"
    /\ calls' = calls (-) SetToBag({c})
    /\ hasPlayedSound' = hasPlayedSoundDelete(hasPlayedSound, c.id)
    /\ ev' = [Event("delete_fail") EXCEPT !.id = c.id]
    /\ UNCHANGED <<now, backend, reminders, audioContext, permission, prompt,
                   pendingNotifs, promptTimers, initPc, timers, loads, acks,
                   ops, dispatches, deleted, requests, earlier>>
\* deleteReminder resumes with the failure: the catch block only reports it.
DeleteFail(c) ==
    /\ c.kind = "delete" /\ c.st = "fail"
    /\ calls' = calls (-) SetToBag({c})
    /\ ev' = [Event("delete_fail") EXCEPT !.id = c.id]
    /\ UNCHANGED <<now, backend, reminders, hasPlayedSound, audioContext,
                   permission, prompt, pendingNotifs, promptTimers, initPc,
                   timers, loads, acks, ops, dispatches, deleted, requests,
                   earlier>>

\* ------------------------------------------------- PUT /reminders/{id}/notify

\* The backend applies one acknowledgement of the id.
AckApplied(id) ==
    /\ BagIn(id, acks)
    /\ acks' = acks (-) SetToBag({id})
    /\ backend' = {IF r.id = id THEN [r EXCEPT !.notified = TRUE] ELSE r : r \in backend}
    /\ ev' = Event("ack_ok")
    /\ UNCHANGED <<calls, earlier, ops, now, reminders, hasPlayedSound, audioContext, permission,
                   prompt, pendingNotifs, promptTimers, initPc, timers, loads,
                   dispatches, deleted, requests>>

\* One acknowledgement of the id fails; the .catch handler logs it.
AckFailed(id) ==
    /\ BagIn(id, acks)
    /\ acks' = acks (-) SetToBag({id})
    /\ ev' = Event("ack_fail")
    /\ UNCHANGED <<calls, earlier, ops, now, backend, reminders, hasPlayedSound, audioContext,
                   permission, prompt, pendingNotifs, promptTimers, initPc,
                   timers, loads, dispatches, deleted, requests>>

\* -------------------------------------------------------------- importData

\* importData up to its first await: a file is chosen, the confirm() dialog
\* is accepted and file.text() starts reading.
ImportClick(table) ==
    /\ ops > 0
    /\ ops' = ops - 1
    /\ calls' = calls (+) SetToBag({Call("import", 0, 0, table, "reading")})
    /\ ev' = Event("import_click")
    /\ UNCHANGED <<now, backend, reminders, hasPlayedSound, audioContext,
                   permission, prompt, pendingNotifs, promptTimers, initPc,
                   timers, loads, acks, dispatches, deleted, requests,
                   earlier>>

\* importData resumes with the text of the file: it parses and
\* POST /import-data goes out with its contents.
ImportSend(c) ==
    /\ c.kind = "import" /\ c.st = "reading"
    /\ calls' = (calls (-) SetToBag({c})) (+) SetToBag({[c EXCEPT !.st = "sent"]})
    /\ ev' = Event("import_send")
    /\ UNCHANGED <<now, backend, reminders, hasPlayedSound, audioContext,
                   permission, prompt, pendingNotifs, promptTimers, initPc,
                   timers, loads, acks, ops, dispatches, deleted, requests,
                   earlier>>

\* The backend replaces its data by the imported data and answers OK.
BackendImport(c) ==
    /\ Pending(c, "import")
    /\ backend' = c.table
    /\ calls' = Answered(c, "ok")
    /\ deleted' = deleted \ {r.id : r \in c.table}
    /\ ev' = Event("backend_import")
    /\ UNCHANGED <<now, reminders, hasPlayedSound, audioContext, permission,
                   prompt, pendingNotifs, promptTimers, initPc, timers,
                   loads, acks, ops, dispatches, requests, earlier>>

\* The POST /import-data fails: a network error or a non-OK status reaches
\* the page. The backend may or may not have replaced its data.
BackendImportFails(c, applied) ==
    /\ Pending(c, "import")
    /\ backend' = IF applied THEN c.table ELSE backend
    /\ calls' = Answered(c, "fail")
    /\ deleted' = IF applied THEN deleted \ {r.id : r \in c.table} ELSE deleted
    /\ ev' = Event("backend_import_fail")
    /\ UNCHANGED <<now, reminders, hasPlayedSound, audioContext, permission,
                   prompt, pendingNotifs, promptTimers, initPc, timers,
                   loads, acks, ops, dispatches, requests, earlier>>

\* mutant: the import empties the tracker
ImportOkClearingTracker(c) ==
    /\ c.kind = "import" /\ c.st = "ok"
    /\ calls' = calls (-) SetToBag({c})
    /\ StartLoad(0)
    /\ hasPlayedSound' = {}
    /\ ev' = Event("import")
    /\ UNCHANGED <<now, backend, reminders, audioContext, permission, prompt,
                   pendingNotifs, promptTimers, initPc, timers, acks, ops,
                   dispatches, deleted, requests, earlier>>
\* importData resumes with the OK response: loadData() starts
\* loadReminders().
ImportOk(c) ==
    /\ c.kind = "import" /\ c.st = "ok"
    /\ calls' = calls (-) SetToBag({c})
    /\ StartLoad(0)
    /\ ev' = Event("import")
    /\ UNCHANGED <<now, backend, reminders, hasPlayedSound, audioContext,
                   permission, prompt, pendingNotifs, promptTimers, initPc,
                   timers, acks, ops, dispatches, deleted, requests, earlier>>

\* importData resumes with a failure (the file cannot be read or parsed, or
\* the POST failed): the catch block only reports it.
ImportFail(c) ==
    /\ c.kind = "import" /\ c.st \in {"reading", "fail"}
    /\ calls' = calls (-) SetToBag({c})
    /\ ev' = Event("import_fail")
    /\ UNCHANGED <<now, backend, reminders, hasPlayedSound, audioContext,
                   permission, prompt, pendingNotifs, promptTimers, initPc,
                   timers, loads, acks, ops, dispatches, deleted, requests,
                   earlier>>

\* ------------------------------------------------------------ page reload

hasPlayedSoundPersisted(previous) == previous
\* let hasPlayedSound = new Set(): the script starts with an empty tracker,
\* whatever the tracker of the previous session held.
hasPlayedSoundNew(previous) == {}

\* The requests of the user's handlers after a reload: those not yet dealt
\* with by the backend may still reach it, the responses of the others have no
\* page to go to.
Orphaned(inFlight) ==
    LET live == {c \in BagToSet(inFlight) : c.st \in {"sent", "orphan"}}
        gone == {[c EXCEPT !.st = "orphan"] : c \in live}
    IN [o \in gone |-> CopiesIn(o, inFlight)
                         + CopiesIn([o EXCEPT !.st = "sent"], inFlight)]

\* The user reloads the page: the script runs again from its first line.
\* Timers, prompts and responses of the old page are gone; requests already
\* sent may still reach the backend.
Reload ==
    /\ ops > 0
    /\ ops' = ops - 1
    /\ reminders' = <<>>
    /\ hasPlayedSound' = hasPlayedSoundNew(hasPlayedSound)
    /\ audioContext' = FALSE
    /\ prompt' = FALSE
    /\ pendingNotifs' = EmptyBag
    /\ promptTimers' = 0
    /\ timers' = 0
    /\ initPc' = [p \in Inits |-> IF initPc[p] = "off" THEN "off" ELSE "health"]
    /\ loads' = EmptyBag
    /\ calls' = Orphaned(calls)
    /\ earlier' = [a \in Alerts |->
                      IF dispatches[a] >= 1 THEN earlier[a] + 1 ELSE earlier[a]]
    /\ dispatches' = [a \in Alerts |-> 0]
    /\ requests' = 0
    /\ ev' = Event("reload")
    /\ UNCHANGED <<now, backend, permission, acks, deleted>>

\* ------------------------------------------------------------------- Next

\* The audio stack works: a context can be created and the tone plays.
SoundOk == [canCreate |-> TRUE, synthThrows |-> FALSE, fallbackThrows |-> FALSE]

\* Start-up, the timer, the backend and the network, for reminders with
\* ids in `ids`, an audio stack behaving as one of `envs` at each call and
\* the clock read at one of `instants`.
SchedStepsAt(ids, envs, instants) ==
    \/ \E p \in Inits : HealthSettled(p)
    \/ \E p \in Inits, t \in instants, env \in envs : InitReady(p, t, env)
    \/ \E t \in instants, env \in envs : Tick(t, env)
    \/ \E l \in BagToSet(loads) : BackendAnswer(l)
    \/ \E l \in BagToSet(loads) : LoadOk(l)
    \/ \E l \in BagToSet(loads) : LoadFail(l)
    \/ \E id \in ids : AckApplied(id)
    \/ \E id \in ids : AckFailed(id)

SchedSteps(ids, envs) == SchedStepsAt(ids, envs, Instants)

\* One clock reading in each window of the reminders and one after both.
WindowInstants ==
    {d - FIVE_MIN_MS : d \in DueTimes} \cup DueTimes
        \cup {d + ONE_MIN_MS + 1000 : d \in DueTimes}

\* addReminder: the click, the backend storing the reminder under an id in
\* `ids`, and the continuation.
AddSteps(ids) ==
    \/ \E dt \in DueTimes : AddSend(dt)
    \/ \E c \in BagToSet(calls), id \in ids : BackendAdd(c, id)
    \/ \E c \in BagToSet(calls) : AddOk(c)

\* The POST /reminders failing, and the continuation in the catch block.
AddFailSteps(ids) ==
    \/ \E c \in BagToSet(calls), stored \in BOOLEAN, id \in ids :
           BackendAddFails(c, stored, id)
    \/ \E c \in BagToSet(calls) : AddFail(c)

\* deleteReminder with the DELETE succeeding: the click, the backend
\* removing the reminder, and the continuation.
DeleteSteps(ids) ==
    \/ \E id \in ids : DeleteSend(id)
    \/ \E c \in BagToSet(calls) : BackendDelete(c)
    \/ \E c \in BagToSet(calls) : DeleteOk(c)

\* The DELETE failing, and the continuation in the catch block.
DeleteFailSteps ==
    \/ \E c \in BagToSet(calls), removed \in BOOLEAN : BackendDeleteFails(c, removed)
    \/ \E c \in BagToSet(calls) : DeleteFail(c)

\* What the user does during the session.
UserSteps(ids) ==
    \/ OnlineEvent
    \/ AddSteps(ids)
    \/ AddFailSteps(ids)
    \/ DeleteSteps(ids)
    \/ DeleteFailSteps

PromptSteps ==
    \/ PromptTimerFires
    \/ \E ans \in {"granted", "denied", "default"} : PermissionAnswer(ans)

\* The session starts with reminders of ids in `ids` on the backend, the
\* permission in `perms`, and initializeApp invoked once or (twice = TRUE)
\* possibly twice; the user starts `userOps` operations.
InitFor(ids, perms, twice, userOps) ==
    /\ Init
    /\ \A r \in backend : r.id \in ids
    /\ permission \in perms
    /\ twice \/ initPc[2] = "off"
    /\ ops = userOps
InitWith(ids, perms, twice) == InitFor(ids, perms, twice, MaxOps)
\* A longer session: one more operation of the user.
InitLong(ids, perms, twice) == InitFor(ids, perms, twice, MaxOps + 1)

\* Scheduling with notifications granted and a working audio stack, with
\* the user adding and deleting reminders.
Next == SchedSteps(Ids, {SoundOk}) \/ UserSteps(Ids)
Spec == InitWith(Ids, {"granted"}, FALSE) /\ [][Next]_vars

\* The three specifications below run the scheduler on the reminders the
\* session starts with, for one more reminder id than Spec.
PairIds == 1..(NumIds + 1)

\* Two reminders side by side.
NextPair == SchedSteps(PairIds, {SoundOk})
SpecPair == InitWith(PairIds, {"granted"}, FALSE) /\ [][NextPair]_vars

\* Every behaviour of the audio stack.
NextSound == SchedSteps(PairIds, SoundEnvs)
SpecSound == InitWith(PairIds, {"granted"}, FALSE) /\ [][NextSound]_vars

\* Every permission state, with the prompts and the user's answers.
NextPerm == SchedSteps(PairIds, {SoundOk}) \/ PromptSteps
SpecPerm == InitWith(PairIds, Permissions, FALSE) /\ [][NextPerm]_vars

\* The timer as the browser schedules it when nothing delays it: the first
\* checkReminders runs when initializeApp gets there, and the callback of
\* setInterval(checkReminders, 60000) every 60000 ms after that.
Horizon == (CHOOSE d \in DueTimes : TRUE) + ONE_MIN_MS + ONE_MIN_MS

\* Clock readings of the first checkReminders: 1 ms before the PreAlert
\* window of the reminders opens, and the instant it opens.
Starts == {d - FIVE_MIN_MS - 1 : d \in DueTimes} \cup {d - FIVE_MIN_MS : d \in DueTimes}

TimerTickEveryTwoMinutes(env) ==
    /\ now + ONE_MIN_MS + ONE_MIN_MS <= Horizon
    /\ Tick(now + ONE_MIN_MS + ONE_MIN_MS, env)
\* One run of the setInterval callback, 60000 ms after the previous run.
TimerTick(env) ==
    /\ now + ONE_MIN_MS <= Horizon
    /\ Tick(now + ONE_MIN_MS, env)

NextPeriodic ==
    \/ \E p \in Inits : HealthSettled(p)
    \/ \E p \in Inits, t \in Starts : InitReady(p, t, SoundOk)
    \/ TimerTick(SoundOk)
    \/ \E l \in BagToSet(loads) : BackendAnswer(l)
    \/ \E l \in BagToSet(loads) : LoadOk(l)
    \/ \E l \in BagToSet(loads) : LoadFail(l)
    \/ \E id \in PairIds : AckApplied(id)
    \/ \E id \in PairIds : AckFailed(id)
SpecPeriodic == InitWith(PairIds, {"granted"}, FALSE) /\ [][NextPeriodic]_vars

\* Every failure the scheduler meets: the refresh or an acknowledgement
\* failing, any behaviour of the audio stack, notifications denied.
NextFail == SchedSteps(PairIds, SoundEnvs)
SpecFail == InitWith(PairIds, {"granted", "denied"}, FALSE) /\ [][NextFail]_vars

\* The scheduler with refreshes started while it runs (the 'online' event).
NextNet == SchedSteps(Ids, {SoundOk}) \/ OnlineEvent
SpecNet == InitWith(Ids, {"granted"}, FALSE) /\ [][NextNet]_vars

\* The scheduler with the user deleting reminders, every outcome.
NextDelete ==
    \/ SchedSteps(Ids, {SoundOk})
    \/ DeleteSteps(Ids)
    \/ DeleteFailSteps
    \/ \E id \in Ids : DeleteCancelled(id)
SpecDelete == InitWith(Ids, {"granted"}, FALSE) /\ [][NextDelete]_vars

\* The scheduler when the script's two start-up hooks can both run
\* initializeApp.
NextBoot == SchedSteps(Ids, {SoundOk})
SpecBoot == InitWith(Ids, {"granted"}, TRUE) /\ [][NextBoot]_vars

\* Refreshes that overlap, started by the 'online' event and by
\* deleteReminder, with every request succeeding.
NextRace ==
    \/ \E p \in Inits : HealthSettled(p)
    \/ \E p \in Inits, t \in Instants : InitReady(p, t, SoundOk)
    \/ \E t \in Instants : Tick(t, SoundOk)
    \/ \E l \in BagToSet(loads) : BackendAnswer(l)
    \/ \E l \in BagToSet(loads) : LoadOk(l)
    \/ \E id \in Ids : AckApplied(id)
    \/ \E id \in Ids : AckFailed(id)
    \/ OnlineEvent
    \/ DeleteSteps(Ids)
SpecRace == InitLong(Ids, {"granted"}, FALSE) /\ [][NextRace]_vars

\* Sessions of the page one after the other, separated by reloads.
NextReload == SchedSteps(Ids, {SoundOk}) \/ Reload
SpecReload == InitLong(Ids, {"granted"}, FALSE) /\ [][NextReload]_vars

\* The tables an import file can leave on the backend: reminders that have
\* not been notified.
TablesOf(ids) == {S \in Tables : \A r \in S : r.id \in ids /\ ~r.notified}

\* importData after the click: the backend replacing its data or failing
\* to, and the continuation.
ImportSteps ==
    \/ \E c \in BagToSet(calls) : ImportSend(c)
    \/ \E c \in BagToSet(calls) : BackendImport(c)
    \/ \E c \in BagToSet(calls), applied \in BOOLEAN : BackendImportFails(c, applied)
    \/ \E c \in BagToSet(calls) : ImportOk(c)
    \/ \E c \in BagToSet(calls) : ImportFail(c)

\* The scheduler with the user importing data (explored as the first thing
\* the user does in the session), then adding and deleting reminders.
NextImport ==
    \/ SchedStepsAt(Ids, {SoundOk}, WindowInstants)
    \/ AddSteps(Ids)
    \/ DeleteSteps(Ids)
    \/ (ops = MaxOps /\ \E table \in TablesOf(Ids) : ImportClick(table))
    \/ ImportSteps
SpecImport == InitWith(Ids, {"granted"}, FALSE) /\ [][NextImport]_vars

\* Due times of reminders created during the session: five minutes after
\* those of the reminders the session starts with.
LaterDueTimes == {d + FIVE_MIN_MS : d \in DueTimes}

\* A longer session in which the user imports data and creates reminders
\* with a later due time, every request succeeding.
NextReplace ==
    \/ SchedSteps(Ids, {SoundOk})
    \/ \E dt \in LaterDueTimes : AddSend(dt)
    \/ \E c \in BagToSet(calls), id \in Ids : BackendAdd(c, id)
    \/ \E c \in BagToSet(calls) : AddOk(c)
    \/ \E table \in TablesOf(Ids) : ImportClick(table)
    \/ \E c \in BagToSet(calls) : ImportSend(c)
    \/ \E c \in BagToSet(calls) : BackendImport(c)
    \/ \E c \in BagToSet(calls) : ImportOk(c)
SpecReplace == InitLong(Ids, {"granted"}, FALSE) /\ [][NextReplace]_vars

\* ------------------------------------------------------------------ claims

TickOps == {"tick", "init_tick"}
Cached == Range(reminders)
\* The due time of the reminders.
T0 == CHOOSE d \in DueTimes : TRUE

\* C1. Within one session, whatever the ticks, refreshes and acknowledgement
\* outcomes, no alert (reminder id, threshold) is dispatched more than once
\* unless deleteReminder removed the reminder in between.
C1_AtMostOncePerKey == \A a \in Alerts : dispatches[a] <= 1

\* C1 witness: an alert was dispatched, the cache was refreshed afterwards,
\* and a later tick inside the same window left it at one dispatch.
C1_Witness ==
    /\ ev.op = "tick" /\ ev.alerts = {}
    /\ now = 340001
    /\ dispatches[<<1, "now">>] = 1
    /\ \E r \in Cached : r.id = 1 /\ ~r.notified

\* C2 (as in the specification). The PreAlert of a cached reminder due at T
\* is dispatched only by ticks with T - 5min < now <= T, and a tick in that
\* window leaves it dispatched.
C2_Original ==
    ev.op \in TickOps =>
        \A r \in Cached :
            LET a == <<r.id, "5min">> IN
            /\ a \in ev.alerts =>
                  (r.date_time - FIVE_MIN_MS < now /\ now <= r.date_time)
            /\ (r.date_time - FIVE_MIN_MS < now /\ now <= r.date_time /\ ~r.notified)
                  => dispatches[a] >= 1

\* C2 (amended). A tick dispatches the PreAlert of a cached reminder due at T
\* only when T - 5min <= now < T, and after a tick in that window the reminder
\* either has had its PreAlert dispatched or carries notified = true: now =
\* T - 5min is inside the window, now = T is outside.
C2_PreAlertWindow ==
    ev.op \in TickOps =>
        \A r \in Cached :
            LET a == <<r.id, "5min">> IN
            /\ a \in ev.alerts =>
                  (r.date_time - FIVE_MIN_MS <= now /\ now < r.date_time)
            /\ (r.date_time - FIVE_MIN_MS <= now /\ now < r.date_time /\ ~r.notified)
                  => dispatches[a] >= 1

\* C2 witness: the PreAlert dispatched by a tick exactly five minutes before.
C2_Witness ==
    /\ ev.op \in TickOps
    /\ now = T0 - FIVE_MIN_MS
    /\ <<1, "5min">> \in ev.alerts
    /\ \E r \in Cached : r.id = 1 /\ r.date_time = T0

\* C3 (as in the specification). The DueAlert of a cached reminder due at T
\* is dispatched only by ticks with T < now <= T + 1min, and a tick in that
\* window leaves it dispatched.
C3_Original ==
    ev.op \in TickOps =>
        \A r \in Cached :
            LET a == <<r.id, "now">> IN
            /\ a \in ev.alerts =>
                  (r.date_time < now /\ now <= r.date_time + ONE_MIN_MS)
            /\ (r.date_time < now /\ now <= r.date_time + ONE_MIN_MS)
                  => dispatches[a] >= 1

\* C3 (amended). A tick dispatches the DueAlert of a cached reminder due at T
\* only when T <= now < T + 1min, and after a tick in that window the DueAlert
\* has been dispatched, whether or not the PreAlert was and whatever the
\* notified flag: now = T is inside the window, now = T + 1min is outside.
C3_DueAlertWindow ==
    ev.op \in TickOps =>
        \A r \in Cached :
            LET a == <<r.id, "now">> IN
            /\ a \in ev.alerts =>
                  (r.date_time <= now /\ now < r.date_time + ONE_MIN_MS)
            /\ (r.date_time <= now /\ now < r.date_time + ONE_MIN_MS)
                  => dispatches[a] >= 1

\* C3 witness: the DueAlert dispatched by a tick exactly at the due time, for
\* a reminder whose PreAlert was never dispatched.
C3_Witness ==
    /\ ev.op \in TickOps
    /\ now = T0
    /\ <<1, "now">> \in ev.alerts
    /\ dispatches[<<1, "5min">>] = 0

\* C4. Once deleteReminder(id) has had its DELETE succeed, no tick dispatches
\* an alert for that reminder.
C4_NoAlertAfterDelete ==
    ev.op \in TickOps => \A a \in ev.alerts : a[1] \notin deleted

\* C5. While the permission is "denied", a tick calls neither
\* Notification.requestPermission() nor new Notification(...), and a callback
\* of an earlier request creates nothing; yet every alert the tick dispatches
\* plays its sound, and after the tick no cached reminder inside one of its
\* windows is left without its alert (unless, for the PreAlert, it carries
\* notified = true).
C5_DeniedNoApiCall ==
    permission = "denied" =>
        /\ ev.op = "answer" => ev.notif = 0
        /\ ev.op \in TickOps =>
              /\ ev.req = 0
              /\ ev.notif = 0
              /\ ev.tones + ev.fallbacks = Cardinality(ev.alerts)
              /\ \A r \in Cached :
                    /\ (r.date_time - FIVE_MIN_MS <= now /\ now < r.date_time
                          /\ ~r.notified) => dispatches[<<r.id, "5min">>] >= 1
                    /\ (r.date_time <= now /\ now < r.date_time + ONE_MIN_MS)
                          => dispatches[<<r.id, "now">>] >= 1

\* C5 witness: a tick under "denied" that dispatched an alert with its sound.
C5_Witness ==
    /\ permission = "denied"
    /\ ev.op = "tick"
    /\ ev.alerts # {}
    /\ ev.tones = Cardinality(ev.alerts)

\* C6. In every tick, each dispatched alert either has its tone synthesised
\* or has the fallback sample attempted exactly once; playNotificationSound
\* never throws, also when the fallback throws, so that every dispatched
\* alert gets its notification, its acknowledgement request and its key.
C6_SoundFallback ==
    ev.op \in TickOps =>
        /\ ~ev.threw
        /\ ev.tones + ev.fallbacks = Cardinality(ev.alerts)
        /\ ev.fallbackThrew <= ev.fallbacks
        /\ ev.notif = Cardinality(ev.alerts)
        /\ \A a \in ev.alerts :
              /\ a \in hasPlayedSound
              /\ BagIn(a[1], ev.acks)
              /\ BagIn(a[1], acks)

\* C6 witness: a tick that dispatched two alerts, with the synthesis failing
\* and the fallback throwing for both, and both keys marked.
C6_Witness ==
    /\ ev.op = "tick"
    /\ Cardinality(ev.alerts) = 2
    /\ ev.tones = 0
    /\ ev.fallbackThrew = 2
    /\ ev.alerts \subseteq hasPlayedSound

InCache(id) == \E r \in Cached : r.id = id /\ r.date_time = T0
Untouched(id) ==
    /\ \E r \in Cached : r.id = id /\ r.date_time = T0 /\ ~r.notified
    /\ \A suffix \in Suffixes :
          dispatches[<<id, suffix>>] = 0 /\ <<id, suffix>> \notin hasPlayedSound
AlertsOf(e, id) == {a \in e.alerts : a[1] = id}

\* C7 (as in the specification). For a reminder {id: 1} due four minutes
\* after it was set: the tick 4min30s after (30 s past due) fires the PreAlert
\* only, the tick at 4min40s does not re-fire the PreAlert, and the tick at
\* 4min61s fires the DueAlert.
C7_Original ==
    [][ev'.op \in TickOps =>
          /\ (Untouched(1) /\ now' = T0 + 30000)
                => AlertsOf(ev', 1) = {<<1, "5min">>}
          /\ (InCache(1) /\ dispatches[<<1, "5min">>] = 1 /\ now' = T0 + 40000)
                => <<1, "5min">> \notin ev'.alerts
          /\ (InCache(1) /\ dispatches[<<1, "now">>] = 0 /\ now' = T0 + 61000)
                => <<1, "now">> \in ev'.alerts]_vars

\* C7 (amended). For the same reminder: the tick 30 s past due fires the
\* DueAlert only, the tick 40 s past due does not fire it again (and fires no
\* PreAlert), and the tick 61 s past due fires nothing.
C7_Scenario ==
    [][ev'.op \in TickOps =>
          /\ (Untouched(1) /\ now' = T0 + 30000)
                => AlertsOf(ev', 1) = {<<1, "now">>}
          /\ (InCache(1) /\ dispatches[<<1, "now">>] = 1 /\ now' = T0 + 40000)
                => AlertsOf(ev', 1) = {}
          /\ (InCache(1) /\ now' = T0 + 61000)
                => AlertsOf(ev', 1) = {}]_vars

\* C7 witness: the end of the scenario, the DueAlert dispatched once, no
\* PreAlert, and the tick 61 s past due dispatching nothing.
C7_Witness ==
    /\ ev.op = "tick" /\ ev.alerts = {}
    /\ now = T0 + 61000
    /\ InCache(1)
    /\ dispatches[<<1, "now">>] = 1
    /\ dispatches[<<1, "5min">>] = 0

\* C8. Of two cached reminders with different ids and the same due time, each
\* has each of its alerts dispatched at most once, only inside that alert's
\* window, and after a tick inside the window each has had it dispatched
\* (unless, for the PreAlert, it carries notified = true): an alert of the
\* one neither suppresses nor repeats an alert of the other.
C8_TwinsIndependent ==
    ev.op \in TickOps =>
        \A r, q \in Cached :
            (r.id # q.id /\ r.date_time = q.date_time) =>
                /\ dispatches[<<r.id, "5min">>] <= 1
                /\ dispatches[<<r.id, "now">>] <= 1
                /\ <<r.id, "5min">> \in ev.alerts
                      => (r.date_time - FIVE_MIN_MS <= now /\ now < r.date_time)
                /\ <<r.id, "now">> \in ev.alerts
                      => (r.date_time <= now /\ now < r.date_time + ONE_MIN_MS)
                /\ (r.date_time - FIVE_MIN_MS <= now /\ now < r.date_time /\ ~r.notified)
                      => dispatches[<<r.id, "5min">>] = 1
                /\ (r.date_time <= now /\ now < r.date_time + ONE_MIN_MS)
                      => dispatches[<<r.id, "now">>] = 1

\* C8 witness: two reminders due at the same time, one with its PreAlert
\* dispatched earlier and one without, both getting their DueAlert in one tick.
C8_Witness ==
    /\ ev.op = "tick"
    /\ ev.alerts = {<<1, "now">>, <<2, "now">>}
    /\ dispatches[<<1, "5min">>] = 1
    /\ dispatches[<<2, "5min">>] = 0
    /\ \A r, q \in Cached : r.date_time = q.date_time

\* C9. Notification.requestPermission() is called at most once per session.
C9_RequestAtMostOnce == requests <= 1

\* C10. A refresh that fails leaves the cache and the tracker as they were.
C10_FailedRefreshKeepsSnapshot ==
    [][ev'.op = "load_fail" =>
          /\ reminders' = reminders
          /\ hasPlayedSound' = hasPlayedSound]_vars

\* C10 witness: a refresh failed while the cache held a reminder whose
\* PreAlert key was in the tracker, and both are still there.
C10_Witness ==
    /\ ev.op = "load_fail"
    /\ reminders # <<>>
    /\ hasPlayedSound # {}

\* C11. A failed acknowledgement leaves the cache and the tracker as they
\* were; a tick sends exactly one acknowledgement request for each alert it
\* dispatches and none besides, and it dispatches only alerts whose key was
\* not marked, marking it: while the key stays marked no later tick sends
\* the acknowledgement again.
C11_AckFailureIsLocal ==
    [][/\ ev'.op = "ack_fail" =>
              /\ reminders' = reminders
              /\ hasPlayedSound' = hasPlayedSound
       /\ ev'.op \in TickOps =>
              /\ BagToSet(ev'.acks) = {a[1] : a \in ev'.alerts}
              /\ BagCardinality(ev'.acks) = Cardinality(ev'.alerts)
              /\ acks' = acks (+) ev'.acks
              /\ \A a \in ev'.alerts :
                    a \notin hasPlayedSound /\ a \in hasPlayedSound']_vars

\* C11 witness: the DueAlert was dispatched, every acknowledgement sent so
\* far failed (the backend still has notified = false), and a later tick
\* inside the DueAlert window sent nothing.
C11_Witness ==
    /\ ev.op = "tick" /\ ev.alerts = {} /\ ev.acks = EmptyBag
    /\ T0 < now /\ now < T0 + ONE_MIN_MS
    /\ dispatches[<<1, "now">>] = 1
    /\ <<1, "now">> \in hasPlayedSound
    /\ acks = EmptyBag
    /\ \E r \in backend : r.id = 1 /\ ~r.notified

\* Ticks 60000 ms apart that start d ms before a window [open, open + len)
\* opens: the clock readings of the first ticks.
Phases == {1, 2, 30000, 59999, ONE_MIN_MS}
TicksFrom(start) == {start + k * ONE_MIN_MS : k \in 0..7}
Sampled(r) ==
    \A d \in Phases :
        /\ \E t \in TicksFrom(r.date_time - FIVE_MIN_MS - d) :
              in5minWindow(timeDiff(r, t))
        /\ \E t \in TicksFrom(r.date_time - FIVE_MIN_MS - d) :
              inNowWindow(timeDiff(r, t))

\* C12 (as in the specification). With ticks exactly 60 s apart, a reminder
\* cached from before T - 5min has had both its PreAlert and its DueAlert
\* dispatched by the time the clock has passed T + 1min.
C12_Original ==
    \A r \in Cached :
        now >= r.date_time + ONE_MIN_MS =>
            /\ dispatches[<<r.id, "5min">>] >= 1
            /\ dispatches[<<r.id, "now">>] >= 1

\* C12 (amended). With ticks exactly 60 s apart, some tick falls in each
\* window of a reminder cached from before T - 5min, and by the time the
\* clock has passed T + 1min its DueAlert has been dispatched once, and its
\* PreAlert once unless the backend returned it with notified = true.
C12_BothWindowsSampled ==
    \A r \in Cached :
        /\ Sampled(r)
        /\ now >= r.date_time + ONE_MIN_MS =>
              /\ dispatches[<<r.id, "now">>] = 1
              /\ dispatches[<<r.id, "5min">>] = 1
                    \/ (dispatches[<<r.id, "5min">>] = 0 /\ r.notified)

\* C12 witness: the first tick ran 1 ms before the PreAlert window opened,
\* the clock has passed T + 1min, and both alerts of reminder 1 were
\* dispatched, the DueAlert by the last tick that could.
C12_Witness ==
    /\ ev.op = "tick"
    /\ now = T0 + ONE_MIN_MS + ONE_MIN_MS - 1
    /\ InCache(1)
    /\ dispatches[<<1, "5min">>] = 1
    /\ dispatches[<<1, "now">>] = 1

\* C13. No failure stops the scheduler: a failed refresh lets initializeApp
\* go on, every initializeApp that finished has installed the timer, no tick
\* ends in an exception, and after every tick each cached reminder inside one
\* of its windows has had that alert dispatched (unless, for the PreAlert, it
\* carries notified = true), whatever failed before or during the tick.
C13_FailuresDoNotStopScheduler ==
    /\ ev.op = "load_fail" => \A p \in Inits : initPc[p] \in {"off", "loaded"}
    /\ \A p \in Inits : initPc[p] = "done" => timers >= 1
    /\ ev.op \in TickOps =>
          /\ ~ev.threw
          /\ \A r \in Cached :
                /\ (in5minWindow(timeDiff(r, now)) /\ ~r.notified)
                      => <<r.id, "5min">> \in hasPlayedSound
                /\ inNowWindow(timeDiff(r, now))
                      => <<r.id, "now">> \in hasPlayedSound
                /\ \A suffix \in Suffixes :
                      <<r.id, suffix>> \in hasPlayedSound
                          => dispatches[<<r.id, suffix>>] = 1

\* C13 witness: with notifications denied, after the PreAlert of reminder 1
\* was dispatched and never acknowledged on the backend, a timer tick in
\* which synthesis and fallback both failed dispatched the DueAlerts of two
\* reminders.
C13_Witness ==
    /\ permission = "denied"
    /\ ev.op = "tick"
    /\ ev.alerts = {<<1, "now">>, <<2, "now">>}
    /\ ev.tones = 0 /\ ev.fallbackThrew = 2
    /\ dispatches[<<1, "5min">>] = 1
    /\ \E r \in backend : r.id = 1 /\ ~r.notified

\* C14. A reload leaves the new session with an empty tracker and an empty
\* cache; in the new session each alert is dispatched at most once, and a
\* tick inside a window dispatches the alert even when an earlier session
\* had dispatched it (the PreAlert provided the refreshed reminder has
\* notified = false).
C14_ReloadRefiresOnce ==
    /\ ev.op = "reload" => (hasPlayedSound = {} /\ reminders = <<>>)
    /\ \A a \in Alerts : dispatches[a] <= 1
    /\ ev.op \in TickOps =>
          \A r \in Cached :
              /\ (earlier[<<r.id, "5min">>] >= 1 /\ ~r.notified
                    /\ r.date_time - FIVE_MIN_MS <= now /\ now < r.date_time)
                    => dispatches[<<r.id, "5min">>] = 1
              /\ (earlier[<<r.id, "now">>] >= 1
                    /\ r.date_time <= now /\ now < r.date_time + ONE_MIN_MS)
                    => dispatches[<<r.id, "now">>] = 1

\* C14 witness: the PreAlert of reminder 1 was dispatched in two earlier
\* sessions (again after a reload), its DueAlert in one, and a tick of the
\* third session dispatches the DueAlert again.
C14_Witness ==
    /\ ev.op \in TickOps
    /\ <<1, "now">> \in ev.alerts
    /\ earlier[<<1, "now">>] = 1
    /\ earlier[<<1, "5min">>] = 2

LastInstant == CHOOSE t \in Instants : \A u \in Instants : u <= t

\* C15. Once the timer is installed a tick can always run, whatever
\* acknowledgements or refreshes are in flight; and a tick that runs while a
\* refresh or an earlier acknowledgement is in flight leaves every cached
\* reminder inside one of its windows with that alert dispatched (unless, for
\* the PreAlert, it carries notified = true).
C15_TickNeverWaits ==
    /\ timers > 0 => ENABLED Tick(LastInstant, SoundOk)
    /\ (ev.op = "tick" /\ (loads # EmptyBag \/ acks (-) ev.acks # EmptyBag)) =>
          \A r \in Cached :
              /\ (r.date_time - FIVE_MIN_MS <= now /\ now < r.date_time
                    /\ ~r.notified) => <<r.id, "5min">> \in hasPlayedSound
              /\ (r.date_time <= now /\ now < r.date_time + ONE_MIN_MS)
                    => <<r.id, "now">> \in hasPlayedSound

\* C15 witness: a timer tick dispatched the DueAlert of reminder 1 while a
\* refresh was in flight and the acknowledgement of its PreAlert had not
\* reached the backend.
C15_Witness ==
    /\ ev.op = "tick"
    /\ <<1, "now">> \in ev.alerts
    /\ loads # EmptyBag
    /\ dispatches[<<1, "5min">>] = 1
    /\ \E r \in backend : r.id = 1 /\ ~r.notified

\* C16. Whenever a tick dispatches an alert for a reminder, PreAlert or
\* DueAlert, the cached reminder has notified = true when the tick ends.
C16_DispatchSetsNotified ==
    ev.op \in TickOps =>
        \A r \in Cached : AlertsOf(ev, r.id) # {} => r.notified

\* The alert state of a reminder as the tracker shows it: 0 Pending (no key),
\* 1 PreAlerted (PreAlert key only), 2 Fired (DueAlert key).
AlertState(played, id) ==
    IF <<id, "now">> \in played THEN 2
    ELSE IF <<id, "5min">> \in played THEN 1 ELSE 0

\* C17. With a clock that never goes back, a tick dispatches the PreAlert of
\* a reminder only from Pending, never after its DueAlert; and the alert
\* state of a reminder goes backwards only in a successful deleteReminder of
\* it, which takes it to Pending by removing both keys.
C17_StateOnlyMovesForward ==
    [][\A id \in AllIds :
          /\ (ev'.op \in TickOps /\ <<id, "5min">> \in ev'.alerts)
                => AlertState(hasPlayedSound, id) = 0
          /\ AlertState(hasPlayedSound', id) < AlertState(hasPlayedSound, id)
                => /\ ev'.op = "delete_ok"
                   /\ ev'.id = id
                   /\ AlertState(hasPlayedSound', id) = 0]_vars

\* C17 witness: reminder 1 went Pending, PreAlerted, Fired: a tick dispatches
\* its DueAlert with the PreAlert key already in the tracker.
C17_Witness ==
    /\ ev.op = "tick"
    /\ ev.alerts = {<<1, "now">>}
    /\ dispatches[<<1, "5min">>] = 1
    /\ AlertState(hasPlayedSound, 1) = 2
    /\ <<1, "5min">> \in hasPlayedSound

\* C18. A key enters the tracker only in a tick that dispatches that key's
\* alert and leaves it only in a successful deleteReminder of its id; a tick
\* that dispatches nothing and every other step (refresh answered, applied
\* or failed, a request of addReminder, deleteReminder or importData sent
\* or handled by the backend, reminder created, data imported or the import
\* failing, acknowledgement applied or failed) leave the tracker unchanged.
C18_TrackerFrame ==
    [][/\ \A a \in Alerts :
             /\ (a \notin hasPlayedSound /\ a \in hasPlayedSound')
                   => (ev'.op \in TickOps /\ a \in ev'.alerts)
             /\ (a \in hasPlayedSound /\ a \notin hasPlayedSound')
                   => (ev'.op = "delete_ok" /\ ev'.id = a[1])
       /\ (ev'.op \in TickOps /\ ev'.alerts = {})
             => hasPlayedSound' = hasPlayedSound
       /\ ev'.op \notin (TickOps \cup {"delete_ok"})
             => hasPlayedSound' = hasPlayedSound]_vars

\* C18 witness: data was imported while the tracker held the key of a
\* dispatched alert, and the key is still there.
C18_Witness ==
    /\ ev.op = "import"
    /\ \E a \in hasPlayedSound : dispatches[a] = 1
    /\ backend # {}

\* C19. A tick whose clock reading lies outside both windows of a cached
\* reminder (before T - 5min, or at or after T + 1min) dispatches nothing for
\* it and changes neither its keys nor its cached record; and what a tick
\* dispatches for a reminder is the alert of the window its clock reading
\* lies in, so an alert whose window no tick lands in is never dispatched.
C19_NoCatchUp ==
    [][ev'.op \in TickOps =>
          \A i \in 1..Len(reminders) :
              LET r == reminders[i] IN
              /\ (now' < r.date_time - FIVE_MIN_MS \/ now' >= r.date_time + ONE_MIN_MS)
                    => /\ AlertsOf(ev', r.id) = {}
                       /\ reminders'[i] = r
                       /\ \A suffix \in Suffixes :
                             /\ (<<r.id, suffix>> \in hasPlayedSound')
                                   = (<<r.id, suffix>> \in hasPlayedSound)
                             /\ dispatches'[<<r.id, suffix>>]
                                   = dispatches[<<r.id, suffix>>]
              /\ <<r.id, "5min">> \in ev'.alerts
                    => (r.date_time - FIVE_MIN_MS <= now' /\ now' < r.date_time)
              /\ <<r.id, "now">> \in ev'.alerts
                    => (r.date_time <= now' /\ now' < r.date_time + ONE_MIN_MS)]_vars

\* C19 witness: no tick landed in a window of reminder 1, the first tick
\* after them ran exactly at T + 1min, and nothing was or is dispatched.
C19_Witness ==
    /\ ev.op \in TickOps
    /\ now = T0 + ONE_MIN_MS
    /\ \E r \in Cached : r.id = 1 /\ r.date_time = T0 /\ ~r.notified
    /\ ev.alerts = {}
    /\ hasPlayedSound = {}
    /\ \A suffix \in Suffixes : dispatches[<<1, suffix>>] = 0

\* C20. A refresh that succeeds makes the cache exactly the array the backend
\* answered, records and field values, keeping nothing of the old cache; and
\* start-up, every successful addReminder and every successful
\* deleteReminder send one GET /reminders.
C20_RefreshReplacesCache ==
    [][/\ ev'.op = "load_ok" =>
             \E l \in BagToSet(loads) :
                 /\ l.st = "resp"
                 /\ reminders' = l.body
                 /\ loads' = loads (-) SetToBag({l})
       /\ ev'.op \in {"health", "add", "delete_ok"} =>
             \E owner \in {0} \cup Inits :
                 loads' = loads (+) SetToBag({Load("sent", <<>>, owner)})]_vars

\* C20 witness: reminder 1 was cached, deleteReminder removed it from the
\* backend, and the refresh that followed left the cache without it.
C20_Witness ==
    /\ ev.op = "load_ok"
    /\ 1 \in deleted
    /\ backend = {}
    /\ reminders = <<>>

\* C21. A tick creates one notification for each alert it dispatches when the
\* permission is "granted" and none otherwise; an alert dispatched under
\* "default" waits for the answer, and the answer creates the waiting
\* notifications only when it is "granted"; no other step creates one, and
\* nothing waits once the permission is no longer "default".
C21_NotificationOnlyWhenGranted ==
    /\ ev.op \in TickOps =>
          ev.notif = (IF permission = "granted" THEN Cardinality(ev.alerts) ELSE 0)
    /\ (ev.op \in TickOps /\ permission = "default") =>
          \A a \in ev.alerts : BagIn(a, pendingNotifs)
    /\ ev.op = "answer" => (ev.notif > 0 => permission = "granted")
    /\ ev.op \notin (TickOps \cup {"answer"}) => ev.notif = 0
    /\ permission # "default" => pendingNotifs = EmptyBag

\* C21 witness: two alerts were dispatched under "default", and the user's
\* answer "granted" has just created their two notifications.
C21_Witness ==
    /\ ev.op = "answer"
    /\ ev.notif = 2
    /\ permission = "granted"
    /\ Cardinality({a \in Alerts : dispatches[a] = 1}) = 2

\* C22. The checkReminders call of initializeApp, which runs before the
\* 3-second delay of requestNotificationPermission has even started, issues
\* no permission request, also when a reminder is inside one of its windows.
C22_NoRequestBeforeDelay ==
    ev.op = "init_tick" => (ev.req = 0 /\ ~prompt)

\* C23. In a tick each threshold of a cached reminder is decided on its own
\* condition: the PreAlert is dispatched exactly when the clock is in
\* [T - 5min, T), the reminder is not notified and the PreAlert key is not
\* marked; the DueAlert exactly when the clock is in [T, T + 1min) and the
\* DueAlert key is not marked, whatever was decided for the PreAlert; and at
\* most one alert of a reminder is dispatched in a tick.
C23_BothThresholdsDecided ==
    [][ev'.op \in TickOps =>
          \A r \in Range(reminders) :
              /\ (<<r.id, "5min">> \in ev'.alerts)
                    = (/\ r.date_time - FIVE_MIN_MS <= now' /\ now' < r.date_time
                       /\ ~r.notified
                       /\ <<r.id, "5min">> \notin hasPlayedSound)
              /\ (<<r.id, "now">> \in ev'.alerts)
                    = (/\ r.date_time <= now' /\ now' < r.date_time + ONE_MIN_MS
                       /\ <<r.id, "now">> \notin hasPlayedSound)
              /\ Cardinality(AlertsOf(ev', r.id)) <= 1]_vars

\* C23 witness: a tick in the last millisecond of the PreAlert window
\* dispatched the PreAlert of reminder 1 and, the DueAlert window not being
\* open, nothing else for it.
C23_Witness ==
    /\ ev.op \in TickOps
    /\ now = T0 - 1
    /\ InCache(1)
    /\ AlertsOf(ev, 1) = {<<1, "5min">>}
    /\ <<1, "now">> \notin hasPlayedSound

\* C24. A deleteReminder that was cancelled, or whose DELETE failed, leaves
\* the cache and the tracker as they were and starts no refresh, when the
\* DELETE is sent and when its failure comes back; the one whose DELETE
\* succeeded removes the two keys of the id, and only these, and starts a
\* refresh when the response comes back.
C24_DeleteOnlyOnSuccess ==
    [][/\ ev'.op \in {"delete_click", "delete_fail", "delete_cancel"} =>
             /\ reminders' = reminders
             /\ hasPlayedSound' = hasPlayedSound
             /\ loads' = loads
       /\ ev'.op = "delete_ok" =>
             /\ reminders' = reminders
             /\ hasPlayedSound' = hasPlayedSoundDelete(hasPlayedSound, ev'.id)
             /\ BagCardinality(loads') = BagCardinality(loads) + 1]_vars

\* C24 witness: the DELETE of reminder 1 failed on the page although the
\* backend had removed it; the reminder is still cached, its key is still in
\* the tracker and no refresh is in flight.
C24_Witness ==
    /\ ev.op = "delete_fail"
    /\ \E r \in Cached : r.id = 1
    /\ \E a \in hasPlayedSound : a[1] = 1
    /\ backend = {}
    /\ loads = EmptyBag

\* C25. While a timer is installed, the key of an alert dispatched for a
\* reminder stays in the tracker as long as the reminder stays in the cache:
\* no step removes a key of a reminder that the cache still holds after it.
C25_KeysOfCachedKept ==
    [][\A r \in Range(reminders'), suffix \in Suffixes :
          (/\ timers' > 0
           /\ r.id \in IdsOf(reminders)
           /\ <<r.id, suffix>> \in hasPlayedSound)
              => <<r.id, suffix>> \in hasPlayedSound']_vars

\* C26. A tick never dispatches the PreAlert of a reminder whose cached
\* notified flag is true when the tick starts, and it dispatches the DueAlert
\* of such a reminder as it would with the flag false: when the clock is in
\* [T, T + 1 min) and the key (id, "now") is not in the tracker.
C26_FlagGuardsPreAlertOnly ==
    [][ev'.op \in TickOps =>
          \A r \in Range(reminders) :
              r.notified =>
                  /\ <<r.id, "5min">> \notin ev'.alerts
                  /\ (<<r.id, "now">> \in ev'.alerts) =
                         (/\ inNowWindow(timeDiff(r, now'))
                          /\ <<r.id, "now">> \notin hasPlayedSound)]_vars

\* The backend returned the reminder with notified = true; no PreAlert was
\* dispatched in the session, and the tick at T dispatched the DueAlert.
C26_Witness ==
    /\ ev.op = "tick"
    /\ now = T0
    /\ AlertsOf(ev, 1) = {<<1, "now">>}
    /\ dispatches[<<1, "5min">>] = 0
    /\ \E r \in Cached : r.id = 1 /\ r.notified
    /\ \E r \in backend : r.id = 1 /\ r.notified

\* C27. The cached notified flag of a reminder never goes from true back to
\* false while the reminder stays in the cache.
C27_NotifiedMonotonic ==
    [][\A r \in Range(reminders), q \in Range(reminders') :
          (r.id = q.id /\ r.notified) => q.notified]_vars

\* checkReminders runs, and a timer exists, only once an initializeApp
\* invocation has got past its health check and its data load.
StartupOrder ==
    /\ ev.op \in TickOps => \E p \in Inits : initPc[p] = "done"
    /\ timers > 0 => \E p \in Inits : initPc[p] = "done"

\* C28. No tick runs before the start-up health check and the initial data
\* load have settled, and the 60-second timer is installed exactly once per
\* page session: there is never more than one timer.
C28_StartupThenOneTimer == StartupOrder /\ timers <= 1

\* C29. With refreshes overlapping and every response arriving, once the
\* last refresh in flight has completed (and no deleteReminder is waiting for
\* its response) the cache holds the reminders the backend holds: no older
\* response has overwritten a newer one.
C29_LatestResponseWins ==
    (ev.op = "load_ok" /\ loads = EmptyBag /\ calls = EmptyBag)
        => IdsOf(reminders) = {r.id : r \in backend}

\* C30. A reminder of the backend that is in the cache carries no key left
\* behind by an earlier reminder of the same id: as long as the clock has not
\* reached its PreAlert window, when no alert of its own can have been
\* dispatched, neither of its keys is in the tracker.
C30_NoKeyBeforeWindow ==
    \A r \in Cached \cap backend, suffix \in Suffixes :
        now < r.date_time - FIVE_MIN_MS => <<r.id, suffix>> \notin hasPlayedSound

====
